---------------------------- MODULE Spec2Model ----------------------------
(***************************************************************************)
(* Model of pinterest-login: the orchestrator `login` (src/src/lib.rs),    *)
(* the default login bot (src/src/login_bot.rs) and the default browser    *)
(* config builder (src/src/config_builder.rs).                             *)
(*                                                                         *)
(* The main flow of `login` is one process whose position is `pc`; every   *)
(* awaited driver call is one atomic step.  The page, the event stream and *)
(* the drain task are separate actions that interleave with the main flow. *)
(***************************************************************************)
EXTENDS Integers, Sequences, FiniteSets, TLC

(***************************************************************************)
(* Bounds of the model.                                                    *)
(***************************************************************************)
MaxButtons == 2      \* elements the submit-control lookup can return
MaxNav     == 1      \* navigations of the page after the submit click
MaxShifts  == 1      \* 1-pixel layout shifts of clicked elements
MaxFaults  == 1      \* transport failures injected into driver calls
MaxCookies == 9      \* length of the longest cookie sequence of the page

(***************************************************************************)
(* Program constants.                                                      *)
(***************************************************************************)
MAP_CAPACITY == 7
WAIT_DELAY   == 20

(***************************************************************************)
(* URLs, as sequences of characters.                                       *)
(***************************************************************************)
Http      == <<"h", "t", "t", "p">>
Https     == <<"h", "t", "t", "p", "s">>
Ftp       == <<"f", "t", "p">>
SchemeSep == <<":", "/", "/">>
Www       == <<"w", "w", "w", ".">>
Host      == <<"p", "i", "n", "t", "e", "r", "e", "s", "t", ".", "c", "o", "m">>
LoginPath == <<"/", "l", "o", "g", "i", "n">>
HomePath  == <<"/", "h", "o", "m", "e">>

PINTEREST_LOGIN_URL == Https \o SchemeSep \o Host \o LoginPath

\* The URLs the page can be at.  Urls[1] is the login URL itself.
Urls ==
    << PINTEREST_LOGIN_URL,
       Https \o SchemeSep \o Www \o Host \o LoginPath \o <<"?", "x", "=", "1">>,
       Http \o SchemeSep \o Host \o LoginPath \o <<"/">>,
       Https \o SchemeSep \o Host \o HomePath,
       Https \o SchemeSep \o Host \o LoginPath \o <<"h", "e", "l", "p">>,
       Https \o SchemeSep \o Www \o Host \o <<"/">>,
       Https \o SchemeSep \o Host \o LoginPath \o <<"#", "t", "o", "p">>,
       Ftp \o SchemeSep \o Host \o LoginPath >>

NoUrl    == 0                      \* Page::url() returned None
UrlIds   == 1..Len(Urls)
\* Where the page lands after goto(PINTEREST_LOGIN_URL): the login URL or
\* the login URL the site redirects to.
LandingUrls == {1, 3}

StartsWith(s, p) == Len(s) >= Len(p) /\ SubSeq(s, 1, Len(p)) = p
Drop(s, n)       == SubSeq(s, n + 1, Len(s))

\* regex!(r#"^(https?:\/\/(?:www\.)?pinterest\.com\/login).*$"#).is_match(url)
\* `.` does not match a line feed, and `$` matches at the end of the text only.
\* (LoginRegexWwwRequired: the same regex with `www\.` not optional.)
LoginRegexWwwRequired(url) ==
    \E scheme \in {Http, Https} :
        LET head == scheme \o SchemeSep \o Www \o Host \o LoginPath
        IN  /\ StartsWith(url, head)
            /\ \A k \in 1..Len(Drop(url, Len(head))) : Drop(url, Len(head))[k] # "\n"

LoginRegex(url) ==
    \E scheme \in {Http, Https} : \E www \in {<< >>, Www} :
        LET head == scheme \o SchemeSep \o www \o Host \o LoginPath
        IN  /\ StartsWith(url, head)
            /\ \A k \in 1..Len(Drop(url, Len(head))) : Drop(url, Len(head))[k] # "\n"

\* The match arms of check_login on the Option<String> that url() returned.
\* (CheckLoginNoneIsSuccess: the None arm returning Ok(()).)
CheckLoginNoneIsSuccess(u) ==
    IF u = NoUrl THEN "Ok"
    ELSE IF LoginRegex(Urls[u]) THEN "AuthenticationError" ELSE "Ok"

CheckLogin(u) ==
    IF u = NoUrl THEN "AuthenticationError"
    ELSE IF LoginRegex(Urls[u]) THEN "AuthenticationError" ELSE "Ok"

\* map_err(PinterestLoginError::BrowserConfigBuildError) on the builder result
\* (BuildBrowserConfigAsCdp: the error mapped to the driver error instead.)
BuildBrowserConfigAsCdp(ok) == IF ok THEN "Ok" ELSE "CdpError"

BuildBrowserConfig(ok) == IF ok THEN "Ok" ELSE "BrowserConfigBuildError"

(***************************************************************************)
(* Cookies.                                                                *)
(***************************************************************************)
Cookie(n, v) == [name |-> n, value |-> v]

\* The cookies a page can hold, in the order get_cookies returns them; a
\* jar is a prefix of this sequence.  "sess" occurs twice.
CookieFeed ==
    << Cookie("sess", "a"), Cookie("csrf", "b"), Cookie("sess", "c"),
       Cookie("c4", "d"), Cookie("c5", "e"), Cookie("c6", "f"),
       Cookie("c7", "g"), Cookie("c8", "h"), Cookie("c9", "i"),
       Cookie("c10", "j"), Cookie("c11", "k"), Cookie("c12", "l") >>

Min(a, b) == IF a < b THEN a ELSE b
JarLengths == {0, 1, 3, Min(MaxCookies, Len(CookieFeed))}
Jars == { SubSeq(CookieFeed, 1, n) : n \in JarLengths }

EmptyMap == [n \in {} |-> ""]

\* HashMap::insert(name, value)
\* (InsertKeepsFirst: the value of a key already in the map is kept.)
InsertKeepsFirst(m, n, v) ==
    [k \in DOMAIN m \cup {n} |-> IF k \in DOMAIN m THEN m[k] ELSE v]

Insert(m, n, v) == [k \in DOMAIN m \cup {n} |-> IF k = n THEN v ELSE m[k]]

\* for cookie in c { cookies.insert(cookie.name, cookie.value); }
RECURSIVE Collect(_, _)
Collect(c, m) ==
    IF c = << >> THEN m
    ELSE Collect(Tail(c), Insert(m, Head(c).name, Head(c).value))

\* Capacity of a hashbrown table of `buckets` buckets (7/8 load factor).
BucketsToCapacity(buckets) ==
    IF buckets <= 8 THEN buckets - 1 ELSE (buckets \div 8) * 7

RECURSIVE NextPowerOfTwo(_, _)
NextPowerOfTwo(n, p) == IF p >= n THEN p ELSE NextPowerOfTwo(n, 2 * p)

\* Buckets needed to hold `cap` items.
CapacityToBuckets(cap) ==
    IF cap < 4 THEN 4
    ELSE IF cap < 8 THEN 8
    ELSE NextPowerOfTwo((cap * 8) \div 7, 1)

\* Capacity after one insert into a map of `len` items and capacity `cap`:
\* a new key in a full table makes the table grow.
CapacityAfterInsert(cap, len, isNew) ==
    IF isNew /\ len = cap
    THEN BucketsToCapacity(CapacityToBuckets(IF len + 1 > cap + 1 THEN len + 1 ELSE cap + 1))
    ELSE cap

\* cookies.capacity() after the insert loop over c
RECURSIVE CapacityAfter(_, _, _)
CapacityAfter(c, m, cap) ==
    IF c = << >> THEN cap
    ELSE CapacityAfter(Tail(c),
                       Insert(m, Head(c).name, Head(c).value),
                       CapacityAfterInsert(cap, Cardinality(DOMAIN m),
                                           Head(c).name \notin DOMAIN m))

(***************************************************************************)
(* Bounding boxes.                                                         *)
(***************************************************************************)
Components == {"x", "y", "width", "height"}
Box0 == [x |-> 10, y |-> 20, width |-> 30, height |-> 5]

\* cheack: `if nb.x != b.x || nb.y != b.y { return Ok(false); }`
BoxDiffers(nb, b) == nb.x # b.x \/ nb.y # b.y


(***************************************************************************)
(* State.                                                                  *)
(***************************************************************************)
VARIABLES
    pc,               \* position of the main flow of login
    result,           \* what login returned
    browser,          \* a browser process has been launched
    drain,            \* the event-drain task: "none", "running", "cancelled"
    events,           \* the handler's stream holds events not yet pulled
    configOk,         \* the builder can build a launch configuration
    logFeature,       \* built with feature "log"
    doc,              \* the document the page shows (0: none yet)
    pageUrl,          \* the page's URL, NoUrl if it has none
    emailPresent,     \* input#email is in the document
    passwordPresent,  \* input#password is in the document
    focus,            \* the element of the document that has the focus
    nButtons,         \* elements matching LOGIN_BUTTON_SELECTOR
    box,              \* the bounding box of each of them
    navs,             \* navigations since the first click
    shifts,           \* layout shifts since the first click
    faults,           \* transport failures so far
    e,                \* fill_login_form: the identifier input found
    found,            \* submit_login_form: the result of find_xpaths
    buttons,          \* submit_login_form: buttons
    old_bounds,       \* submit_login_form: old_bounds
    i,                \* submit_login_form: index of the running loop
    c,                \* login: the cookies that get_cookies returned
    cookies,          \* login: the cookie map
    capacity,         \* login: cookies.capacity()
    log,              \* history: the steps started, in order
    errs,             \* history: the errors raised, in order
    failedCalls,      \* history: the driver calls that returned Err
    urlSeen,          \* history: what url() returned to check_login
    checkResult,      \* history: what check_login returned
    clicks,           \* history: the elements clicked, in order
    lookups,          \* history: lookups of input#password issued
    typed             \* history: the inputs typed into, in order

progVars == <<pc, result, browser, drain, e, found, buttons, old_bounds, i,
              c, cookies, capacity>>
buildVars == <<configOk, logFeature>>
pageVars == <<doc, pageUrl, emailPresent, passwordPresent, focus, nButtons,
              box, navs, shifts>>
histVars == <<log, errs, failedCalls, urlSeen, checkResult, clicks, lookups,
              typed>>
vars == <<progVars, buildVars, pageVars, histVars, events, faults>>

NoResult  == [kind |-> "none", cookies |-> EmptyMap]
Ok(m)     == [kind |-> "Ok", cookies |-> m]
Err(k)    == [kind |-> k, cookies |-> EmptyMap]
NoElement == [id |-> 0, doc |-> 0]
NotRead   == 0 - 1

Init ==
    /\ pc = "build_browser_config"
    /\ result = NoResult
    /\ browser = FALSE
    /\ drain = "none"
    /\ events = FALSE
    /\ configOk \in BOOLEAN
    /\ logFeature \in BOOLEAN
    /\ doc = 0
    /\ pageUrl = NoUrl
    /\ emailPresent = FALSE
    /\ passwordPresent = FALSE
    /\ focus = "none"
    /\ nButtons = 0
    /\ box = [b \in 1..MaxButtons |-> Box0]
    /\ navs = 0
    /\ shifts = 0
    /\ faults = 0
    /\ e = NoElement
    /\ found = << >>
    /\ buttons = << >>
    /\ old_bounds = << >>
    /\ i = 1
    /\ c = << >>
    /\ cookies = EmptyMap
    /\ capacity = 0
    /\ log = <<"build">>
    /\ errs = << >>
    /\ failedCalls = {}
    /\ urlSeen = NotRead
    /\ checkResult = "none"
    /\ clicks = << >>
    /\ lookups = 0
    /\ typed = << >>

(***************************************************************************)
(* Control flow of login and of the bot's methods.                         *)
(***************************************************************************)
\* The step of a login attempt that a position belongs to.
StepOf(p) ==
    CASE p = "build_browser_config" -> "build"
      [] p \in {"launch", "version", "spawn", "start_incognito_context",
                "new_page", "disable_log", "disable_debugger",
                "enable_stealth_mode"} -> "launch"
      [] p \in {"goto", "wait_for_navigation", "log_content", "log_cookies"}
            -> "navigate"
      [] p \in {"fill_find_email", "fill_sleep", "fill_type_email",
                "fill_find_password", "fill_focus_password",
                "fill_type_password"} -> "fill_login_form"
      [] p \in {"submit_find", "submit_click", "submit_bounding_box",
                "submit_poll", "submit_cheack", "submit_sleep"}
            -> "submit_login_form"
      [] p \in {"check_wait", "check_url"} -> "check_login"
      [] p \in {"get_cookies", "cancel", "assert"} -> "get_cookies"
      [] OTHER -> "end"

\* The statement that follows the straight-line statement at p.
\* (AfterFillBeforeGoto: fill_login_form called before page.goto.)
AfterFillBeforeGoto(p, logOn) ==
    CASE p = "build_browser_config" -> "launch"
      [] p = "launch" -> IF logOn THEN "version" ELSE "spawn"
      [] p = "version" -> "spawn"
      [] p = "spawn" -> "start_incognito_context"
      [] p = "start_incognito_context" -> "new_page"
      [] p = "new_page" -> "disable_log"
      [] p = "disable_log" -> "disable_debugger"
      [] p = "disable_debugger" -> "enable_stealth_mode"
      [] p = "enable_stealth_mode" -> "fill_find_email"
      [] p = "goto" -> "wait_for_navigation"
      [] p = "wait_for_navigation" -> IF logOn THEN "log_content" ELSE "submit_find"
      [] p = "log_content" -> "log_cookies"
      [] p = "log_cookies" -> "submit_find"
      [] p = "fill_type_password" -> "goto"
      [] p = "check_wait" -> "check_url"
      [] p = "check_url" -> "get_cookies"
      [] p = "get_cookies" -> "cancel"
      [] p = "cancel" -> "assert"
      [] OTHER -> "returned"

After(p, logOn) ==
    CASE p = "build_browser_config" -> "launch"
      [] p = "launch" -> IF logOn THEN "version" ELSE "spawn"
      [] p = "version" -> "spawn"
      [] p = "spawn" -> "start_incognito_context"
      [] p = "start_incognito_context" -> "new_page"
      [] p = "new_page" -> "disable_log"
      [] p = "disable_log" -> "disable_debugger"
      [] p = "disable_debugger" -> "enable_stealth_mode"
      [] p = "enable_stealth_mode" -> "goto"
      [] p = "goto" -> "wait_for_navigation"
      [] p = "wait_for_navigation" -> IF logOn THEN "log_content" ELSE "fill_find_email"
      [] p = "log_content" -> "log_cookies"
      [] p = "log_cookies" -> "fill_find_email"
      [] p = "fill_type_password" -> "submit_find"
      [] p = "check_wait" -> "check_url"
      [] p = "check_url" -> "get_cookies"
      [] p = "get_cookies" -> "cancel"
      [] p = "cancel" -> "assert"
      [] OTHER -> "returned"

\* Move to position next, entering its step if it is a new one.
Goto(next) ==
    /\ pc' = next
    /\ log' = IF StepOf(next) # StepOf(pc) /\ StepOf(next) # "end"
              THEN Append(log, StepOf(next)) ELSE log

\* The `?` operator on a result r: go on at next, or return the error.
Question(r, next) ==
    IF r = "Ok"
    THEN Goto(next) /\ UNCHANGED <<result, errs>>
    ELSE /\ pc' = "returned"
         /\ result' = Err(r)
         /\ errs' = Append(errs, [step |-> StepOf(pc), kind |-> r])
         /\ UNCHANGED log

(***************************************************************************)
(* Driver calls.  A call the page can serve succeeds, or fails on a        *)
(* transport failure; a call the page cannot serve (an element that is not *)
(* in the document, an element of a document the page has left) fails.     *)
(***************************************************************************)
Outcomes(can) ==
    IF can
    THEN {"ok"} \cup (IF faults < MaxFaults THEN {"fault"} ELSE {})
    ELSE {"err"}

\* What a driver call at position pc with outcome o leaves behind.
Call(o) ==
    /\ faults' = IF o = "fault" THEN faults + 1 ELSE faults
    /\ failedCalls' = IF o = "ok" THEN failedCalls ELSE failedCalls \cup {pc}

\* Result<_, CdpError> of a driver call with outcome o, as `?` sees it.
Cdp(o) == IF o = "ok" THEN "Ok" ELSE "CdpError"

Live(el) == el.doc = doc /\ doc > 0

\* The handler is being polled: only then does a command sent to the browser
\* get its response.
Served == drain = "running"

(***************************************************************************)
(* login, up to the bot (lib.rs 195-238).                                  *)
(***************************************************************************)
\* config_builder.build_browser_config()?
BuildConfig ==
    /\ pc = "build_browser_config"
    /\ Question(BuildBrowserConfig(configOk), After(pc, logFeature))
    /\ UNCHANGED <<browser, drain, e, found, buttons, old_bounds, i, c,
                   cookies, capacity, buildVars, pageVars, failedCalls,
                   urlSeen, checkResult, clicks, events, faults,
                   lookups, typed>>

\* Browser::launch(config).await?
Launch ==
    /\ pc = "launch"
    /\ \E o \in Outcomes(TRUE) :
        /\ Call(o)
        /\ Question(Cdp(o), After(pc, logFeature))
        /\ browser' = (o = "ok")
    /\ UNCHANGED <<drain, e, found, buttons, old_bounds, i, c, cookies,
                   capacity, buildVars, pageVars, urlSeen, checkResult,
                   clicks, events,
                   lookups, typed>>

\* task::spawn(async move { loop { let _event = handler.next().await; } })
Spawn ==
    /\ pc = "spawn"
    /\ drain' = "running"
    /\ Goto(After(pc, logFeature))
    /\ UNCHANGED <<result, browser, e, found, buttons, old_bounds, i, c,
                   cookies, capacity, buildVars, pageVars, errs, failedCalls,
                   urlSeen, checkResult, clicks, events, faults,
                   lookups, typed>>

\* The driver calls of login that only succeed or fail: browser.version()
\* (feature "log"), start_incognito_context, new_page, disable_log,
\* disable_debugger, enable_stealth_mode, wait_for_navigation, and the
\* content and cookies read for the log.
PlainCalls == {"version", "start_incognito_context", "new_page",
               "disable_log", "disable_debugger", "enable_stealth_mode",
               "wait_for_navigation", "log_content", "log_cookies"}

PlainCall ==
    /\ pc \in PlainCalls
    /\ Served
    /\ \E o \in Outcomes(TRUE) :
        /\ Call(o)
        /\ Question(Cdp(o), After(pc, logFeature))
    /\ UNCHANGED <<browser, drain, e, found, buttons, old_bounds, i, c,
                   cookies, capacity, buildVars, pageVars, urlSeen,
                   checkResult, clicks, events,
                   lookups, typed>>

\* page.goto(PINTEREST_LOGIN_URL).await?
GotoLogin ==
    /\ pc = "goto"
    /\ Served
    /\ \E o \in Outcomes(TRUE) :
        /\ Call(o)
        /\ Question(Cdp(o), After(pc, logFeature))
        /\ IF o = "ok"
           THEN /\ doc' = 1
                /\ pageUrl' \in LandingUrls
           ELSE UNCHANGED <<doc, pageUrl>>
    /\ UNCHANGED <<browser, drain, e, found, buttons, old_bounds, i, c,
                   cookies, capacity, buildVars, emailPresent,
                   passwordPresent, focus, nButtons, box, navs, shifts,
                   urlSeen, checkResult, clicks, events,
                   lookups, typed>>

(***************************************************************************)
(* fill_login_form (login_bot.rs 83-129).                                  *)
(***************************************************************************)
\* let Ok(e) = page.find_element(EMAIL_INPUT_SELECTOR).await else { .. }
FillFindEmail ==
    /\ pc = "fill_find_email"
    /\ Served
    /\ \E o \in Outcomes(emailPresent) :
        /\ Call(o)
        /\ IF o = "ok"
           THEN e' = [id |-> 0, doc |-> doc] /\ Goto("fill_type_email")
           ELSE e' = e /\ Goto("fill_sleep")
    /\ UNCHANGED <<result, browser, drain, found, buttons, old_bounds, i, c,
                   cookies, capacity, buildVars, pageVars, errs, urlSeen,
                   checkResult, clicks, events,
                   lookups, typed>>

\* sleep(Duration::from_millis(WAIT_DELAY)).await; continue;
\* (FillSleepGivesUp: the failed lookup returned as the method's error.)
FillSleepGivesUp ==
    /\ pc = "fill_sleep"
    /\ Question("CdpError", "fill_find_email")
    /\ UNCHANGED <<browser, drain, e, found, buttons, old_bounds, i, c,
                   cookies, capacity, buildVars, pageVars, failedCalls,
                   urlSeen, checkResult, clicks, events, faults,
                   lookups, typed>>

FillSleep ==
    /\ pc = "fill_sleep"
    /\ Goto("fill_find_email")
    /\ UNCHANGED <<result, browser, drain, e, found, buttons, old_bounds, i,
                   c, cookies, capacity, buildVars, pageVars, errs,
                   failedCalls, urlSeen, checkResult, clicks, events,
                   faults,
                   lookups, typed>>

\* e.type_str(self.email).await?
FillTypeEmail ==
    /\ pc = "fill_type_email"
    /\ Served
    /\ \E o \in Outcomes(Live(e)) :
        /\ Call(o)
        /\ Question(Cdp(o), "fill_find_password")
        /\ typed' = IF o = "ok" THEN Append(typed, "email") ELSE typed
    /\ UNCHANGED <<browser, drain, e, found, buttons, old_bounds, i, c,
                   cookies, capacity, buildVars, pageVars, urlSeen,
                   checkResult, clicks, lookups, events>>

\* page.find_element(PASSWORD_INPUT_SELECTOR).await?
\* (FillFindPasswordRetried: a failed lookup is tried again.)
FillFindPasswordRetried ==
    /\ pc = "fill_find_password"
    /\ Served
    /\ \E o \in Outcomes(passwordPresent) :
        /\ Call(o)
        /\ Goto(IF o = "ok" THEN "fill_focus_password" ELSE "fill_find_password")
    /\ lookups' = lookups + 1
    /\ UNCHANGED <<result, errs, browser, drain, e, found, buttons,
                   old_bounds, i, c, cookies, capacity, buildVars, pageVars,
                   urlSeen, checkResult, clicks, typed, events>>

FillFindPassword ==
    /\ pc = "fill_find_password"
    /\ Served
    /\ \E o \in Outcomes(passwordPresent) :
        /\ Call(o)
        /\ Question(Cdp(o), "fill_focus_password")
    /\ lookups' = lookups + 1
    /\ UNCHANGED <<browser, drain, e, found, buttons, old_bounds, i, c,
                   cookies, capacity, buildVars, pageVars, urlSeen,
                   checkResult, clicks, typed, events>>

\* .focus().await?
FillFocusPassword ==
    /\ pc = "fill_focus_password"
    /\ Served
    /\ \E o \in Outcomes(passwordPresent) :
        /\ Call(o)
        /\ Question(Cdp(o), "fill_type_password")
        /\ focus' = IF o = "ok" THEN "password" ELSE focus
    /\ UNCHANGED <<browser, drain, e, found, buttons, old_bounds, i, c,
                   cookies, capacity, buildVars, doc, pageUrl, emailPresent,
                   passwordPresent, nButtons, box, navs, shifts, urlSeen,
                   checkResult, clicks, events,
                   lookups, typed>>

\* .type_str(self.password).await?; Ok(())
FillTypePassword ==
    /\ pc = "fill_type_password"
    /\ Served
    /\ \E o \in Outcomes(passwordPresent) :
        /\ Call(o)
        /\ Question(Cdp(o), After(pc, logFeature))
        /\ typed' = IF o = "ok" THEN Append(typed, "password") ELSE typed
    /\ UNCHANGED <<browser, drain, e, found, buttons, old_bounds, i, c,
                   cookies, capacity, buildVars, pageVars, urlSeen,
                   checkResult, clicks, lookups, events>>

(***************************************************************************)
(* submit_login_form (login_bot.rs 132-174).                               *)
(***************************************************************************)
SubmitPcs == {"submit_find", "submit_click", "submit_bounding_box",
              "submit_poll", "submit_cheack", "submit_sleep"}
PollPcs   == {"submit_poll", "submit_cheack", "submit_sleep"}

\* The locals of submit_login_form when it returns, or keeps running.
SubmitLocals(returns) ==
    IF returns
    THEN found' = << >> /\ buttons' = << >> /\ old_bounds' = << >> /\ i' = 1
    ELSE UNCHANGED <<found, buttons, old_bounds, i>>

\* for e in page.find_xpaths(LOGIN_BUTTON_SELECTOR).await? { .. }
\* (SubmitFindFirstOnly: the first match only, as find_xpath would give.)
SubmitFindFirstOnly ==
    /\ pc = "submit_find"
    /\ Served
    /\ \E o \in Outcomes(TRUE) :
        /\ Call(o)
        /\ Question(Cdp(o), IF nButtons = 0 THEN "submit_poll" ELSE "submit_click")
        /\ found' = IF o = "ok"
                    THEN [b \in 1..Min(nButtons, 1) |-> [id |-> b, doc |-> doc]]
                    ELSE found
    /\ i' = 1
    /\ UNCHANGED <<browser, drain, e, buttons, old_bounds, c, cookies,
                   capacity, buildVars, pageVars, urlSeen, checkResult,
                   clicks, events,
                   lookups, typed>>

SubmitFind ==
    /\ pc = "submit_find"
    /\ Served
    /\ \E o \in Outcomes(TRUE) :
        /\ Call(o)
        /\ Question(Cdp(o), IF nButtons = 0 THEN "submit_poll" ELSE "submit_click")
        /\ found' = IF o = "ok"
                    THEN [b \in 1..nButtons |-> [id |-> b, doc |-> doc]]
                    ELSE found
    /\ i' = 1
    /\ UNCHANGED <<browser, drain, e, buttons, old_bounds, c, cookies,
                   capacity, buildVars, pageVars, urlSeen, checkResult,
                   clicks, events,
                   lookups, typed>>

\* e.click().await?
SubmitClick ==
    /\ pc = "submit_click"
    /\ Served
    /\ \E o \in Outcomes(Live(found[i])) :
        /\ Call(o)
        /\ Question(Cdp(o), "submit_bounding_box")
        /\ clicks' = IF o = "ok" THEN Append(clicks, found[i].id) ELSE clicks
        /\ SubmitLocals(o # "ok")
    /\ UNCHANGED <<browser, drain, e, c, cookies, capacity, buildVars,
                   pageVars, urlSeen, checkResult, lookups, typed, events>>

\* old_bounds.push(e.bounding_box().await?); buttons.push(e);
SubmitBoundingBox ==
    /\ pc = "submit_bounding_box"
    /\ Served
    /\ \E o \in Outcomes(Live(found[i])) :
        /\ Call(o)
        /\ Question(Cdp(o), IF i < Len(found) THEN "submit_click" ELSE "submit_poll")
        /\ IF o = "ok"
           THEN /\ old_bounds' = Append(old_bounds, box[found[i].id])
                /\ buttons' = Append(buttons, found[i])
                /\ i' = IF i < Len(found) THEN i + 1 ELSE 1
                /\ found' = found
           ELSE SubmitLocals(TRUE)
    /\ UNCHANGED <<browser, drain, e, c, cookies, capacity, buildVars,
                   pageVars, urlSeen, checkResult, clicks, events,
                   lookups, typed>>

\* while page.find_element(EMAIL_INPUT_SELECTOR).await.is_ok() && { .. }
\* With no button to compare, cheack returns Ok(true) without a driver call.
SubmitPoll ==
    /\ pc = "submit_poll"
    /\ Served
    /\ \E o \in Outcomes(emailPresent) :
        /\ Call(o)
        /\ IF o = "ok"
           THEN Goto(IF old_bounds = << >> THEN "submit_sleep" ELSE "submit_cheack")
           ELSE Goto("check_wait")
        /\ SubmitLocals(o # "ok")
    /\ UNCHANGED <<result, browser, drain, e, c, cookies, capacity,
                   buildVars, pageVars, errs, urlSeen, checkResult, clicks,
                   events,
                   lookups, typed>>

\* One turn of the loop of cheack on the outcome o of bounding_box, the new
\* box nb and the baseline b: the error, Ok(false), or the next turn.
\* (CheackTurnErrorIsChange: a failed read taken for a changed box.)
CheackTurnErrorIsChange(o, nb, b) ==
    IF o # "ok" THEN "changed"
    ELSE IF BoxDiffers(nb, b) THEN "changed" ELSE "same"

CheackTurn(o, nb, b) ==
    IF o # "ok" THEN "CdpError"
    ELSE IF BoxDiffers(nb, b) THEN "changed" ELSE "same"

\* let nb = buttons[i].bounding_box().await?; if nb.x != b.x || .. ; cheack(..)?
SubmitCheack ==
    /\ pc = "submit_cheack"
    /\ Served
    /\ \E o \in Outcomes(Live(buttons[i])) :
        LET t == CheackTurn(o, box[buttons[i].id], old_bounds[i])
        IN  /\ Call(o)
            /\ CASE t = "CdpError" -> Question(t, "check_wait") /\ SubmitLocals(TRUE)
                 [] t = "changed" -> Question("Ok", "check_wait") /\ SubmitLocals(TRUE)
                 [] OTHER ->
                      /\ UNCHANGED <<found, buttons, old_bounds>>
                      /\ IF i < Len(old_bounds)
                         THEN Question("Ok", "submit_cheack") /\ i' = i + 1
                         ELSE Question("Ok", "submit_sleep") /\ i' = 1
    /\ UNCHANGED <<browser, drain, e, c, cookies, capacity, buildVars,
                   pageVars, urlSeen, checkResult, clicks, events,
                   lookups, typed>>

\* sleep(Duration::from_millis(WAIT_DELAY)).await;
SubmitSleep ==
    /\ pc = "submit_sleep"
    /\ Goto("submit_poll")
    /\ UNCHANGED <<result, browser, drain, e, found, buttons, old_bounds, i,
                   c, cookies, capacity, buildVars, pageVars, errs,
                   failedCalls, urlSeen, checkResult, clicks, events,
                   faults,
                   lookups, typed>>

(***************************************************************************)
(* check_login (login_bot.rs 177-208).                                     *)
(***************************************************************************)
\* page.wait_for_navigation().await?
CheckWait ==
    /\ pc = "check_wait"
    /\ Served
    /\ \E o \in Outcomes(TRUE) :
        /\ Call(o)
        /\ Question(Cdp(o), After(pc, logFeature))
    /\ UNCHANGED <<browser, drain, e, found, buttons, old_bounds, i, c,
                   cookies, capacity, buildVars, pageVars, urlSeen,
                   checkResult, clicks, events,
                   lookups, typed>>

\* login_bot.check_login(&page).await?  (lib.rs 252), on check_login's
\* own result r.
\* (CheckLoginResultDropped: the result discarded, without the `?`.)
CheckLoginResultDropped(r, next) == Question("Ok", next)

\* (CheckLoginRetried: a rejected attempt fills the form again.)
CheckLoginRetried(r, next) ==
    IF r = "AuthenticationError"
    THEN Goto("fill_find_email") /\ UNCHANGED <<result, errs>>
    ELSE Question(r, next)

CheckLoginQuestion(r, next) == Question(r, next)

\* match ..url().await? { None => Err(..), Some(url) => .. }
CheckUrl ==
    /\ pc = "check_url"
    /\ Served
    /\ \E o \in Outcomes(TRUE) :
        /\ Call(o)
        /\ IF o = "ok"
           THEN /\ urlSeen' = pageUrl
                /\ checkResult' = CheckLogin(pageUrl)
                /\ CheckLoginQuestion(CheckLogin(pageUrl), After(pc, logFeature))
           ELSE /\ UNCHANGED <<urlSeen, checkResult>>
                /\ Question(Cdp(o), After(pc, logFeature))
    /\ UNCHANGED <<browser, drain, e, found, buttons, old_bounds, i, c,
                   cookies, capacity, buildVars, pageVars, clicks,
                   events,
                   lookups, typed>>

(***************************************************************************)
(* login, after the bot (lib.rs 254-297).                                  *)
(***************************************************************************)
\* PinterestCookies::with_capacity(MAP_CAPACITY).capacity()
InitialCapacity == BucketsToCapacity(CapacityToBuckets(MAP_CAPACITY))

\* let c = page.get_cookies().await?; for cookie in c { cookies.insert(..) }
GetCookies ==
    /\ pc = "get_cookies"
    /\ Served
    /\ \E o \in Outcomes(TRUE) :
        /\ Call(o)
        /\ Question(Cdp(o), After(pc, logFeature))
        /\ IF o = "ok"
           THEN \E jar \in Jars :
                    /\ c' = jar
                    /\ cookies' = Collect(jar, EmptyMap)
                    /\ capacity' = CapacityAfter(jar, EmptyMap, InitialCapacity)
           ELSE UNCHANGED <<c, cookies, capacity>>
    /\ UNCHANGED <<browser, drain, e, found, buttons, old_bounds, i,
                   buildVars, pageVars, urlSeen, checkResult, clicks,
                   events,
                   lookups, typed>>

\* handle.cancel().await  /  handle.abort()
\* (CancelSkipped: the handle dropped without cancelling the task.)
CancelSkipped ==
    /\ pc = "cancel"
    /\ drain' = drain
    /\ Goto(After(pc, logFeature))
    /\ UNCHANGED <<result, browser, e, found, buttons, old_bounds, i, c,
                   cookies, capacity, buildVars, pageVars, errs, failedCalls,
                   urlSeen, checkResult, clicks, events, faults,
                   lookups, typed>>

Cancel ==
    /\ pc = "cancel"
    /\ drain' = "cancelled"
    /\ Goto(After(pc, logFeature))
    /\ UNCHANGED <<result, browser, e, found, buttons, old_bounds, i, c,
                   cookies, capacity, buildVars, pageVars, errs, failedCalls,
                   urlSeen, checkResult, clicks, events, faults,
                   lookups, typed>>

\* debug_assert_eq!(cookies.capacity(), MAP_CAPACITY); Ok(cookies)
AssertAndReturn ==
    /\ pc = "assert"
    /\ \E debugAssertions \in BOOLEAN :
        IF debugAssertions /\ capacity # MAP_CAPACITY
        THEN pc' = "panicked" /\ result' = result
        ELSE pc' = "returned" /\ result' = Ok(cookies)
    /\ UNCHANGED <<browser, drain, e, found, buttons, old_bounds, i, c,
                   cookies, capacity, buildVars, pageVars, histVars, events,
                   faults>>

(***************************************************************************)
(* The page, the event stream and the drain task.                          *)
(***************************************************************************)
\* The login page renders its form.
Render ==
    /\ doc = 1 /\ navs = 0 /\ ~emailPresent
    /\ emailPresent' = TRUE
    /\ passwordPresent' \in BOOLEAN
    /\ focus' \in {"none", "email"}
    /\ nButtons' \in 0..MaxButtons
    /\ UNCHANGED <<progVars, buildVars, doc, pageUrl, box, navs, shifts,
                   histVars, events, faults>>

\* After a click the page navigates: a new document, whose elements are
\* not those of the document before.  login looks at the page's document
\* and URL up to the URL read of check_login, and not after it.
Navigate ==
    /\ pc \in SubmitPcs \cup {"check_wait", "check_url"}
    /\ clicks # << >> /\ navs < MaxNav
    /\ navs' = navs + 1
    /\ doc' = doc + 1
    /\ pageUrl' \in UrlIds \cup {NoUrl}
    /\ emailPresent' \in BOOLEAN
    /\ passwordPresent' = emailPresent'
    /\ focus' = "none"
    /\ box' = [b \in DOMAIN box |-> Box0]
    /\ UNCHANGED <<progVars, buildVars, nButtons, shifts, histVars, events,
                   faults>>

\* After a click and without navigation, the layout moves a clicked element
\* by one pixel in one component of its bounding box.  Boxes are read in
\* submit_login_form only.
Shift ==
    /\ pc \in SubmitPcs
    /\ clicks # << >> /\ navs = 0 /\ shifts < MaxShifts
    /\ \E k \in 1..Len(clicks) : \E comp \in Components :
        box' = [box EXCEPT ![clicks[k]][comp] = @ + 1]
    /\ shifts' = shifts + 1
    /\ UNCHANGED <<progVars, buildVars, doc, pageUrl, emailPresent,
                   passwordPresent, focus, nButtons, navs, histVars, events,
                   faults>>

\* The browser emits protocol events into the stream.
Emit ==
    /\ browser /\ ~events
    /\ events' = TRUE
    /\ UNCHANGED <<progVars, buildVars, pageVars, histVars, faults>>

\* loop { let _event = handler.next().await; }: the task pulls what the
\* stream holds and discards it.
Drain ==
    /\ drain = "running" /\ events
    /\ events' = FALSE
    /\ UNCHANGED <<progVars, buildVars, pageVars, histVars, faults>>

Main ==
    \/ BuildConfig \/ Launch \/ Spawn \/ PlainCall \/ GotoLogin
    \/ FillFindEmail \/ FillSleep \/ FillTypeEmail \/ FillFindPassword
    \/ FillFocusPassword \/ FillTypePassword
    \/ SubmitFind \/ SubmitClick \/ SubmitBoundingBox \/ SubmitPoll
    \/ SubmitCheack \/ SubmitSleep
    \/ CheckWait \/ CheckUrl
    \/ GetCookies \/ Cancel \/ AssertAndReturn

Next ==
    \/ BuildConfig \/ Launch \/ Spawn \/ PlainCall \/ GotoLogin
    \/ FillFindEmail \/ FillSleep \/ FillTypeEmail \/ FillFindPassword
    \/ FillFocusPassword \/ FillTypePassword
    \/ SubmitFind \/ SubmitClick \/ SubmitBoundingBox \/ SubmitPoll
    \/ SubmitCheack \/ SubmitSleep
    \/ CheckWait \/ CheckUrl
    \/ GetCookies \/ Cancel \/ AssertAndReturn
    \/ Render \/ Navigate \/ Shift \/ Emit \/ Drain

Spec == Init /\ [][Next]_vars

\* The executor keeps running the main task: a ready step of login is
\* eventually taken.  Nothing obliges the page to render, move or navigate.
FairSpec == Spec /\ WF_vars(Main)

(***************************************************************************)
(* Vocabulary of the properties.                                           *)
(***************************************************************************)
Returned  == pc = "returned"
Started(step) == \E k \in DOMAIN log : log[k] = step
IsPrefix(s, t) == Len(s) <= Len(t) /\ SubSeq(t, 1, Len(s)) = s
Names(jar) == { jar[k].name : k \in DOMAIN jar }

\* The order of the steps of one attempt.
StepOrder == <<"build", "launch", "navigate", "fill_login_form",
               "submit_login_form", "check_login", "get_cookies">>

\* The part of a URL before its query and fragment.
RECURSIVE SchemeHostPath(_)
SchemeHostPath(url) ==
    IF url = << >> \/ Head(url) \in {"?", "#"} THEN << >>
    ELSE <<Head(url)>> \o SchemeHostPath(Tail(url))

\* The oracle as section 4.2 of the specification words it: the scheme, host
\* and path of the URL match ^(https?://)(www\.)?pinterest.com/login, and
\* the match ends at the end of a path segment.
AtLoginPath(url) ==
    LET u == SchemeHostPath(url)
    IN  \E scheme \in {Http, Https} : \E www \in {<< >>, Www} :
            LET head == scheme \o SchemeSep \o www \o Host \o LoginPath
            IN  /\ StartsWith(u, head)
                /\ Len(u) = Len(head) \/ u[Len(head) + 1] = "/"

\* The driver calls of the bot's three methods.
BotCalls == {"fill_find_email", "fill_type_email", "fill_find_password",
             "fill_focus_password", "fill_type_password", "submit_find",
             "submit_click", "submit_bounding_box", "submit_poll",
             "submit_cheack", "check_wait", "check_url"}
\* The lookups of the identifier input.
EmailLookups == {"fill_find_email", "submit_poll"}
\* The ids of a sequence of elements.
Ids(els) == [k \in DOMAIN els |-> els[k].id]
\* The positions of login at a driver call on the browser or the page.
DriverCalls == PlainCalls \cup BotCalls \cup {"goto", "get_cookies"}
\* The URLs of Urls that the login-page pattern matches, worked out by hand
\* from the pattern's text: scheme http or https, optional www., host
\* pinterest.com, then /login followed by anything.
PatternMatches == {1, 2, 3, 5, 7}
\* The first loop of fill_login_form.
FillLoop == {"fill_find_email", "fill_sleep"}
\* The three methods of the bot, as steps of an attempt.
BotSteps == {"fill_login_form", "submit_login_form", "check_login"}
Count(s, seq) == Cardinality({ k \in DOMAIN seq : seq[k] = s })
NoDuplicates(seq) == \A j, k \in DOMAIN seq : seq[j] = seq[k] => j = k
\* The index of the last cookie of the jar that has name n.
LastIndex(n, jar) ==
    CHOOSE k \in DOMAIN jar :
        /\ jar[k].name = n
        /\ \A j \in DOMAIN jar : jar[j].name = n => j <= k

(***************************************************************************)
(* C1.  After login has returned, with a cookie map or with any error, the *)
(* drain task that the call started is no longer running.                  *)
(* Fails: every `?` of login after the spawn returns the error and drops   *)
(* the join handle, which detaches the task; only the success path reaches *)
(* handle.cancel().                                                        *)
(***************************************************************************)
C1_NoDrainAfterReturn == Returned => drain # "running"

(***************************************************************************)
(* C2.  A cookie map is returned only if check_login returned success      *)
(* earlier in the same execution; an error comes with no cookie map; and   *)
(* the cookies are read for the result only after the outcome was          *)
(* classified as success.                                                  *)
(***************************************************************************)
C2_CookiesOnlyAfterSuccess ==
    /\ Started("get_cookies") =>
          /\ checkResult = "Ok"
          /\ \A k \in DOMAIN errs : errs[k].step = "get_cookies"
    /\ result.kind = "Ok" =>
          /\ checkResult = "Ok"
          /\ Started("get_cookies")
          /\ result.cookies = Collect(c, EmptyMap)
    /\ ~Started("get_cookies") => c = << >> /\ cookies = EmptyMap
    /\ Returned /\ result.kind # "Ok" => result.cookies = EmptyMap

C2_Witness ==
    Returned /\ result.kind = "Ok" /\ result.cookies # EmptyMap

(***************************************************************************)
(* C3.  Whenever the page, after the submission, is at the login path      *)
(* (it stayed there, or it rendered the login path again), login returns   *)
(* AuthenticationError and no cookie map.  Stated for the attempts in      *)
(* which no transport failure occurred.                                    *)
(* Fails: see C4; when the login path is loaded again, the poll loop of    *)
(* submit_login_form reads the bounding box of a button of the document    *)
(* before, and login returns that CdpError.                                *)
(***************************************************************************)
C3_RejectedIsAuthenticationError ==
    (/\ Returned
     /\ clicks # << >>
     /\ faults = 0
     /\ pageUrl \in UrlIds
     /\ AtLoginPath(Urls[pageUrl]))
    => result = Err("AuthenticationError")

(***************************************************************************)
(* C4.  Whenever the page accepts the credentials (after the submit click  *)
(* it navigates away from the login page), login returns a cookie map that *)
(* holds every cookie name of the jar, non-empty if the jar is, and no     *)
(* error, whatever the moment of the navigation.  Stated for the attempts  *)
(* in which no transport failure occurred.                                 *)
(* Fails: a navigation between the click and the bounding-box read, or     *)
(* between the lookup of the identifier input and cheack, or between two   *)
(* clicks, makes a call on an element of the document before fail.         *)
(***************************************************************************)
C4_AcceptedReturnsCookies ==
    (/\ Returned
     /\ navs > 0
     /\ faults = 0
     /\ pageUrl \in UrlIds
     /\ ~AtLoginPath(Urls[pageUrl])
     /\ ~LoginRegex(Urls[pageUrl]))
    => /\ result.kind = "Ok"
       /\ Names(c) \subseteq DOMAIN result.cookies
       /\ c # << >> => result.cookies # EmptyMap

(***************************************************************************)
(* C5.  check_login classifies a URL as "still on the login page" exactly  *)
(* when its scheme, host and path match the login address as a             *)
(* path-segment prefix, query and fragment ignored.                        *)
(* Fails: the regex ends in `login).*$`, so any URL that continues the     *)
(* word, as /loginhelp does, is classified as the login page.              *)
(***************************************************************************)
C5_OracleIsPathSegmentPrefix ==
    urlSeen \in UrlIds =>
        ((checkResult = "AuthenticationError") <=> AtLoginPath(Urls[urlSeen]))

C7_ShiftEndsPolling == (shifts > 0) ~> (pc \notin SubmitPcs)

(***************************************************************************)
(* C8.  The steps of an attempt start in the order build, launch,          *)
(* navigate, fill_login_form, submit_login_form, check_login, cookie read; *)
(* the main flow is in the step started last; after the first step that    *)
(* fails no step runs and login has returned that error.                   *)
(***************************************************************************)
C8_StepsInOrderFirstErrorReturned ==
    /\ IsPrefix(log, StepOrder)
    /\ pc \notin {"returned", "panicked"} => StepOf(pc) = log[Len(log)]
    /\ errs # << >> =>
          /\ Len(errs) = 1
          /\ Returned
          /\ result = Err(errs[1].kind)
          /\ log[Len(log)] = errs[1].step
    /\ Returned /\ result.kind # "Ok" => errs # << >>

C8_Witness ==
    /\ Returned
    /\ errs # << >>
    /\ errs[1].step = "submit_login_form"
    /\ log = SubSeq(StepOrder, 1, 5)

(***************************************************************************)
(* C9.  When url() gives check_login no URL, login returns                 *)
(* AuthenticationError: not a driver error, not success.                   *)
(***************************************************************************)
C9_NoUrlIsAuthenticationError ==
    urlSeen = NoUrl =>
        /\ checkResult = "AuthenticationError"
        /\ Returned
        /\ result = Err("AuthenticationError")

C9_Witness == urlSeen = NoUrl /\ Returned

(***************************************************************************)
(* C10.  When the configuration cannot be built, login returns             *)
(* BrowserConfigBuildError with no browser launched and no drain task      *)
(* spawned, and that error is returned in no other case.                   *)
(***************************************************************************)
C10_BuildErrorBeforeLaunch ==
    /\ ~configOk /\ pc # "build_browser_config" =>
          /\ Returned
          /\ result = Err("BrowserConfigBuildError")
    /\ result.kind = "BrowserConfigBuildError" =>
          /\ ~configOk
          /\ ~browser
          /\ drain = "none"
          /\ log = <<"build">>
          /\ failedCalls = {}

C10_Witness == Returned /\ result.kind = "BrowserConfigBuildError"

(***************************************************************************)
(* C11.  An attempt is never retried: in one call of login each of         *)
(* fill_login_form, submit_login_form and check_login is entered at most   *)
(* once, no submit control is clicked twice, and once check_login has      *)
(* produced AuthenticationError login has returned it and the main flow    *)
(* takes no further step: no lookup, no typing, no click.                  *)
(***************************************************************************)
C11_NeverRetried ==
    /\ [](\A s \in BotSteps : Count(s, log) <= 1)
    /\ [](NoDuplicates(clicks))
    /\ [](checkResult = "AuthenticationError" =>
              Returned /\ result = Err("AuthenticationError"))
    /\ [][checkResult = "AuthenticationError" =>
              UNCHANGED <<pc, log, clicks, focus, failedCalls,
                   lookups, typed>>]_vars

C11_Witness ==
    /\ checkResult = "AuthenticationError"
    /\ Returned
    /\ Len(clicks) = 2
    /\ \A s \in BotSteps : Count(s, log) = 1

(***************************************************************************)
(* C12.  The cookie map has as keys exactly the names of the cookies that  *)
(* get_cookies returned, each name with the value of its last occurrence   *)
(* in that sequence; the map login returns is that map.                    *)
(***************************************************************************)
C12_KeysAreNamesLastWriteWins ==
    /\ DOMAIN cookies = Names(c)
    /\ \A n \in Names(c) : cookies[n] = c[LastIndex(n, c)].value
    /\ result.kind = "Ok" => result.cookies = cookies

C12_Witness ==
    /\ result.kind = "Ok"
    /\ \E j, k \in DOMAIN c :
          j < k /\ c[j].name = c[k].name /\ c[j].value # c[k].value
    /\ Cardinality(DOMAIN result.cookies) < Len(c)

(***************************************************************************)
(* C14.  In submit_login_form the baseline bounding box of an element is   *)
(* captured before the click on that element is dispatched: when a click   *)
(* is dispatched, old_bounds already holds the box of the clicked element. *)
(* Fails: the loop body is e.click() and then e.bounding_box(), so the     *)
(* baseline of every element is read after its click.                      *)
(***************************************************************************)
C14_BaselineBeforeClick ==
    [][Len(clicks') > Len(clicks) => Len(old_bounds) >= Len(clicks')]_vars

(***************************************************************************)
(* C15.  A poll of submit_login_form goes on polling exactly when the      *)
(* identifier input is present and the box read from the clicked element   *)
(* equals its baseline; it leaves the loop when the input is absent or the *)
(* box differs from the baseline in any component.  (A transport failure   *)
(* of the poll's own call aside.)                                          *)
(* Fails: cheack compares x and y only, so a box that differs from its     *)
(* baseline in width or height keeps the loop polling.                     *)
(***************************************************************************)
C15_PollsWhileInputAndBoxesUnchanged ==
    [][/\ (pc = "submit_poll" /\ pc' # pc) =>
              IF emailPresent /\ failedCalls' = failedCalls
              THEN pc' \in PollPcs ELSE pc' \notin PollPcs
       /\ (pc = "submit_cheack" /\ <<pc, i>>' # <<pc, i>>) =>
              IF box[buttons[i].id] = old_bounds[i] /\ failedCalls' = failedCalls
              THEN pc' \in PollPcs ELSE pc' \notin PollPcs]_vars

(***************************************************************************)
(* C16.  The first loop of fill_login_form: a lookup of the identifier     *)
(* input that fails is followed by the sleep, and the sleep by the next    *)
(* lookup, whatever the number of attempts before; the loop is left only   *)
(* by a lookup that succeeds, and to the typing of the identifier.  So     *)
(* as long as the page has not rendered the input the method stays in the  *)
(* loop and login does not return, and once the input is present (it       *)
(* stays present until the form is submitted) the typing is reached.       *)
(***************************************************************************)
C16_LookupRetriedUntilFound ==
    /\ [][(pc' # pc /\ pc \in FillLoop) =>
              (\/ /\ pc = "fill_find_email" /\ pc' = "fill_sleep"
                  /\ ~emailPresent \/ faults' > faults
               \/ /\ pc = "fill_find_email" /\ pc' = "fill_type_email"
                  /\ emailPresent /\ faults' = faults /\ Live(e')
               \/ pc = "fill_sleep" /\ pc' = "fill_find_email")]_vars
    /\ [](Started("fill_login_form") /\ ~emailPresent /\ navs = 0 =>
              pc \in FillLoop /\ result = NoResult)
    /\ (pc = "fill_sleep") ~> (pc = "fill_find_email")
    /\ (pc \in FillLoop /\ emailPresent) ~> (pc = "fill_type_email")

C16_Witness ==
    /\ pc = "fill_type_email"
    /\ "fill_find_email" \in failedCalls
    /\ faults > 0

(***************************************************************************)
(* C17.  The identifier is typed into the identifier input only while that *)
(* input has the focus: fill_login_form focuses it before typing, as it    *)
(* does for the secret input.                                              *)
(* Fails: the element found is passed to type_str at once, with no focus() *)
(* or click() before; on a page that does not focus the input by itself    *)
(* the identifier is typed while nothing, or something else, has focus.    *)
(***************************************************************************)
C17_IdentifierFocusedBeforeTyped ==
    [][(typed' # typed /\ typed'[Len(typed')] = "email") =>
           focus = "email"]_vars

(***************************************************************************)
(* C18.  The secret input is looked up at most once and only after the     *)
(* identifier has been typed; once the form has been filled it has been    *)
(* looked up exactly once; and when the lookup fails login has returned    *)
(* CdpError after that one lookup, with the secret input neither focused   *)
(* nor typed into.                                                         *)
(***************************************************************************)
C18_SecretLookedUpOnce ==
    /\ lookups <= 1
    /\ lookups = 1 => typed # << >> /\ typed[1] = "email"
    /\ Len(typed) = 2 =>
          typed = <<"email", "password">> /\ lookups = 1
    /\ Started("submit_login_form") =>
          typed = <<"email", "password">> /\ lookups = 1
    /\ "fill_find_password" \in failedCalls =>
          /\ Returned
          /\ result = Err("CdpError")
          /\ lookups = 1
          /\ typed = <<"email">>
          /\ focus # "password"

C18_Witness ==
    /\ "fill_find_password" \in failedCalls
    /\ Returned
    /\ ~passwordPresent
    /\ faults = 0

(***************************************************************************)
(* C19.  The elements that the lookup of the submit control returned are   *)
(* clicked one by one in lookup order, none twice; when the poll loop      *)
(* starts, and from then on, the clicks are exactly the matches of the     *)
(* page, each once and in lookup order, also with two matches.  (The loop  *)
(* is cut short only by a failed call, which makes the method return the   *)
(* error without reaching the poll loop.)                                  *)
(***************************************************************************)
C19_AllMatchesClickedInOrder ==
    /\ NoDuplicates(clicks)
    /\ pc \in {"submit_click", "submit_bounding_box"} =>
          /\ IsPrefix(clicks, Ids(found))
          /\ Len(found) = nButtons
          /\ Len(clicks) \in {i - 1, i}
    /\ pc \in PollPcs =>
          /\ clicks = Ids(found)
          /\ clicks = [k \in 1..nButtons |-> k]
    /\ Started("check_login") => clicks = [k \in 1..nButtons |-> k]
    /\ ~Started("submit_login_form") => clicks = << >>

C19_Witness == pc = "submit_poll" /\ Len(clicks) = 2 /\ nButtons = 2

(***************************************************************************)
(* C20.  After the launch the drain task is started at once: while the     *)
(* browser is up and the task has not been started login is at the spawn,  *)
(* and login is at a driver call on the browser or the page only while the *)
(* drain task runs.                                                        *)
(* Fails: built with feature "log", login awaits browser.version() between *)
(* the launch and the spawn, a call whose response only a polled handler   *)
(* delivers.                                                               *)
(***************************************************************************)
C20_NoCallBeforeDrain ==
    /\ browser /\ drain = "none" => pc = "spawn"
    /\ pc \in DriverCalls => Served

C22_CapacityIsMapCapacity ==
    /\ pc \in {"cancel", "assert"} => capacity = MAP_CAPACITY
    /\ pc # "panicked"

(***************************************************************************)
(* C23.  When the lookup of the submit control returned no element,        *)
(* submit_login_form, having clicked nothing, leaves its poll loop and     *)
(* returns, also when the identifier input stays on the page.              *)
(* Fails: with nothing to compare cheack returns Ok(true), so the loop     *)
(* polls for as long as the lookup of the identifier input succeeds; with  *)
(* no click the page does not navigate, and the method never returns.      *)
(***************************************************************************)
C23_NoControlStillReturns ==
    (pc \in PollPcs /\ clicks = << >>) ~> (pc \notin SubmitPcs)

(***************************************************************************)
(* C24.  The drain task is cancelled once, by the cancel statement of      *)
(* login: after the cookies were read and folded into the map, with no     *)
(* error raised, and before login returns; once cancelled it stays so.     *)
(* Every successful return comes after that cancel, and the cancel raises  *)
(* no error.                                                               *)
(***************************************************************************)
C24_CancelledOnceBeforeReturn ==
    /\ [](result.kind = "Ok" => drain = "cancelled")
    /\ [](drain = "cancelled" =>
              /\ pc \in {"assert", "returned", "panicked"}
              /\ Started("get_cookies")
              /\ "get_cookies" \notin failedCalls
              /\ cookies = Collect(c, EmptyMap)
              /\ errs = << >>)
    /\ [][(drain' # drain /\ drain' = "cancelled") =>
              /\ pc = "cancel" /\ pc' = "assert"
              /\ drain = "running"
              /\ result' = NoResult
              /\ errs' = errs]_vars
    /\ [][drain = "cancelled" => drain' = "cancelled"]_vars

C24_Witness ==
    /\ Returned
    /\ result.kind = "Ok"
    /\ drain = "cancelled"
    /\ Len(c) = 3

=============================================================================
